---- MODULE Spec2Model ----
(***************************************************************************)
(* Model of scripts/create-opensearch-index.py: the provisioning sequence  *)
(* exists -> delete -> create -> cluster.health -> get run by one or two   *)
(* processes against one remote search service.                            *)
(*                                                                         *)
(* The remote service is the environment of the script.  It holds a set of *)
(* indices with unique names; every call of the script is one atomic step  *)
(* whose answer is drawn from the answers the service can give in its      *)
(* current state, plus (in the specification with faults) the failures of  *)
(* the error taxonomy.  A NetworkFailure of a writing call leaves open     *)
(* whether the service applied the request.                                *)
(***************************************************************************)
EXTENDS Integers, Sequences, FiniteSets, TLC

VARIABLES remote, pc, calls, health, info, exit, pre, runs, overlap, ended, prev

vars == <<remote, pc, calls, health, info, exit, pre, runs, overlap, ended, prev>>

(* ---------------- bounds ---------------- *)

\* runs of the script one process performs in succession
MaxRuns == 2

\* documents an index present before the first run may hold
MaxDocs == 2

Docs == 1..MaxDocs

\* the two operator processes of the concurrency section
Procs == {1, 2}

(* ---------------- constants of the script ---------------- *)

index_name == "rag-documents-prod"

\* an index of the same domain the script never names
other_name == "other-index"

index_body ==
  [ settings |->
      [ number_of_shards |-> 1,
        number_of_replicas |-> 1,
        index |-> [ knn |-> TRUE, ef_search |-> 512 ] ],
    mappings |->
      [ properties |->
          [ document_id |-> [ type |-> "keyword" ],
            content |-> [ type |-> "text", analyzer |-> "standard" ],
            metadata |->
              [ type |-> "object",
                properties |->
                  [ source |-> [ type |-> "keyword" ],
                    title |-> [ type |-> "text" ],
                    timestamp |-> [ type |-> "date" ],
                    page |-> [ type |-> "integer" ],
                    chunk_index |-> [ type |-> "integer" ] ] ],
            embedding |->
              [ type |-> "knn_vector",
                dimension |-> 1536,
                method |->
                  [ name |-> "hnsw",
                    space_type |-> "l2",
                    engine |-> "nmslib",
                    parameters |-> [ ef_construction |-> 512, m |-> 16 ] ] ],
            created_at |-> [ type |-> "date" ],
            updated_at |-> [ type |-> "date" ] ] ] ]

\* a schema an earlier deployment may have left under the same name
legacy_body ==
  [ index_body EXCEPT !.mappings.properties.embedding.dimension = 768,
                      !.settings.number_of_replicas = 0 ]

PriorBodies == {index_body, legacy_body}

\* variant: the create call pushes the schema of the earlier deployment
CreateBodyStale == legacy_body

\* the body argument of the create call
CreateBody == index_body

(* ---------------- the remote service ---------------- *)

Index(n, b, d) == [ name |-> n, body |-> b, docs |-> d ]

Named(rem, n) == { i \in rem : i.name = n }

Present(rem, n) == Named(rem, n) # {}

Without(rem, n) == rem \ Named(rem, n)

\* spontaneous failures of the service or the network (error taxonomy)
Faults == {"AuthFailure", "NetworkFailure"}

CreateFaults == Faults \cup {"RemoteRejected"}

\* answers with which a call returns normally
Successes == {"true", "false", "ack", "green", "yellow", "red", "ok"}

HealthStatuses == {"green", "yellow", "red"}

Outcome(r, rem, a) == [ resp |-> r, remote |-> rem, applied |-> a ]

\* client.indices.exists(index=n): a boolean, never NotFound
ExistsOutcomes(rem, n, F) ==
  { Outcome(IF Present(rem, n) THEN "true" ELSE "false", rem, FALSE) }
    \cup { Outcome(f, rem, FALSE) : f \in F }

\* client.indices.delete(index=n): NotFoundError when n is absent; when the
\* answer is lost to a network failure the index may be gone all the same
DeleteOutcomes(rem, n, F) ==
  (IF Present(rem, n)
     THEN { Outcome("ack", Without(rem, n), TRUE) }
            \cup (IF "NetworkFailure" \in F
                    THEN { Outcome("NetworkFailure", Without(rem, n), TRUE) }
                    ELSE {})
     ELSE { Outcome("NotFound", rem, FALSE) })
    \cup { Outcome(f, rem, FALSE) : f \in F }

\* client.indices.create(index=n, body=b): rejected when n is present; the
\* service stores the body it is sent; when the answer is lost to a network
\* failure the index may have been made all the same
CreateOutcomes(rem, n, b, F) ==
  (IF Present(rem, n)
     THEN { Outcome("AlreadyExists", rem, FALSE) }
     ELSE { Outcome("ack", rem \cup {Index(n, b, {})}, TRUE) }
            \cup (IF "NetworkFailure" \in F
                    THEN { Outcome("NetworkFailure", rem \cup {Index(n, b, {})}, TRUE) }
                    ELSE {}))
    \cup { Outcome(f, rem, FALSE) : f \in F }

\* client.cluster.health(index=n): the tri-state status of a present index
HealthOutcomes(rem, n, F) ==
  (IF Present(rem, n)
     THEN { Outcome(s, rem, FALSE) : s \in HealthStatuses }
     ELSE { Outcome("NotFound", rem, FALSE) })
    \cup { Outcome(f, rem, FALSE) : f \in F }

\* client.indices.get(index=n): the stored settings and mappings
GetOutcomes(rem, n, F) ==
  (IF Present(rem, n)
     THEN { Outcome("ok", rem, FALSE) }
     ELSE { Outcome("NotFound", rem, FALSE) })
    \cup { Outcome(f, rem, FALSE) : f \in F }

\* what indices.get reads back for n
ReadBack(rem, n) == { i.body : i \in Named(rem, n) }

(* ---------------- the script ---------------- *)

Call(o, out) == [ op |-> o, resp |-> out.resp, applied |-> out.applied ]

Running(p) == pc[p] \notin {"idle", "done"}

\* no call of the run was answered by a spontaneous failure
NoFault(cs) == \A i \in 1..Len(cs) : cs[i].resp \notin CreateFaults

\* what is kept of a finished run: its status, the remote state it left,
\* whether the service answered without fault, whether another run overlapped
RunRecord(p, code, rem) ==
  [ exit |-> code, remote |-> rem, clean |-> NoFault(calls[p]), overlap |-> overlap[p] ]

NoRun == [ exit |-> -1, remote |-> {}, clean |-> FALSE, overlap |-> FALSE ]

\* the process ends with status code
Terminate(p, code, rem) ==
  /\ pc' = [pc EXCEPT ![p] = "done"]
  /\ exit' = [exit EXCEPT ![p] = <<code>>]
  /\ ended' = [ended EXCEPT ![p] = RunRecord(p, code, rem)]
  /\ prev' = [prev EXCEPT ![p] = ended[p]]

\* the operator starts the script (again)
Start(p) ==
  /\ pc[p] \in {"idle", "done"}
  /\ runs[p] < MaxRuns
  /\ runs' = [runs EXCEPT ![p] = @ + 1]
  /\ pc' = [pc EXCEPT ![p] = "exists"]
  /\ calls' = [calls EXCEPT ![p] = <<>>]
  /\ health' = [health EXCEPT ![p] = "none"]
  /\ info' = [info EXCEPT ![p] = {}]
  /\ exit' = [exit EXCEPT ![p] = <<>>]
  /\ pre' = [pre EXCEPT ![p] = remote]
  /\ overlap' = [q \in Procs |->
                   IF q = p THEN \E o \in Procs \ {p} : Running(o)
                   ELSE overlap[q] \/ Running(q)]
  /\ UNCHANGED <<remote, ended, prev>>

\* variant: the answer of exists is not used and the delete is always issued
IndicesExistsAlwaysDelete(p, F) ==
  /\ pc[p] = "exists"
  /\ \E out \in ExistsOutcomes(remote, index_name, F) :
       /\ calls' = [calls EXCEPT ![p] = Append(@, Call("exists", out))]
       /\ remote' = out.remote
       /\ pc' = [pc EXCEPT ![p] =
                   IF out.resp \in {"true", "false"} THEN "delete" ELSE "except"]
  /\ UNCHANGED <<health, info, exit, pre, runs, overlap, ended, prev>>

\* variant: the delete branch is missing, create follows exists directly
IndicesExistsNoDelete(p, F) ==
  /\ pc[p] = "exists"
  /\ \E out \in ExistsOutcomes(remote, index_name, F) :
       /\ calls' = [calls EXCEPT ![p] = Append(@, Call("exists", out))]
       /\ remote' = out.remote
       /\ pc' = [pc EXCEPT ![p] =
                   IF out.resp \in {"true", "false"} THEN "create" ELSE "except"]
  /\ UNCHANGED <<health, info, exit, pre, runs, overlap, ended, prev>>

\* if client.indices.exists(index=index_name):
IndicesExists(p, F) ==
  /\ pc[p] = "exists"
  /\ \E out \in ExistsOutcomes(remote, index_name, F) :
       /\ calls' = [calls EXCEPT ![p] = Append(@, Call("exists", out))]
       /\ remote' = out.remote
       /\ pc' = [pc EXCEPT ![p] =
                   CASE out.resp = "true" -> "delete"
                     [] out.resp = "false" -> "create"
                     [] OTHER -> "except"]
  /\ UNCHANGED <<health, info, exit, pre, runs, overlap, ended, prev>>

\* variant: errors of the delete are swallowed and create is tried anyway
IndicesDeleteIgnoreErrors(p, F) ==
  /\ pc[p] = "delete"
  /\ \E out \in DeleteOutcomes(remote, index_name, F) :
       /\ calls' = [calls EXCEPT ![p] = Append(@, Call("delete", out))]
       /\ remote' = out.remote
       /\ pc' = [pc EXCEPT ![p] = "create"]
  /\ UNCHANGED <<health, info, exit, pre, runs, overlap, ended, prev>>

\* client.indices.delete(index=index_name)
IndicesDelete(p, F) ==
  /\ pc[p] = "delete"
  /\ \E out \in DeleteOutcomes(remote, index_name, F) :
       /\ calls' = [calls EXCEPT ![p] = Append(@, Call("delete", out))]
       /\ remote' = out.remote
       /\ pc' = [pc EXCEPT ![p] = IF out.resp = "ack" THEN "create" ELSE "except"]
  /\ UNCHANGED <<health, info, exit, pre, runs, overlap, ended, prev>>

\* response = client.indices.create(index=index_name, body=index_body)
IndicesCreate(p, F) ==
  /\ pc[p] = "create"
  /\ \E out \in CreateOutcomes(remote, index_name, CreateBody, F) :
       /\ calls' = [calls EXCEPT ![p] = Append(@, Call("create", out))]
       /\ remote' = out.remote
       /\ pc' = [pc EXCEPT ![p] = IF out.resp = "ack" THEN "health" ELSE "except"]
  /\ UNCHANGED <<health, info, exit, pre, runs, overlap, ended, prev>>

\* health = client.cluster.health(index=index_name); the status is printed
ClusterHealth(p, F) ==
  /\ pc[p] = "health"
  /\ \E out \in HealthOutcomes(remote, index_name, F) :
       /\ calls' = [calls EXCEPT ![p] = Append(@, Call("health", out))]
       /\ remote' = out.remote
       /\ health' = [health EXCEPT ![p] =
                       IF out.resp \in HealthStatuses THEN out.resp ELSE @]
       /\ pc' = [pc EXCEPT ![p] =
                   IF out.resp \in HealthStatuses THEN "get" ELSE "except"]
  /\ UNCHANGED <<info, exit, pre, runs, overlap, ended, prev>>

\* info = client.indices.get(index=index_name); then the script ends
IndicesGet(p, F) ==
  /\ pc[p] = "get"
  /\ \E out \in GetOutcomes(remote, index_name, F) :
       /\ calls' = [calls EXCEPT ![p] = Append(@, Call("get", out))]
       /\ remote' = out.remote
       /\ IF out.resp = "ok"
            THEN /\ info' = [info EXCEPT ![p] = ReadBack(remote, index_name)]
                 /\ Terminate(p, 0, out.remote)
            ELSE /\ pc' = [pc EXCEPT ![p] = "except"]
                 /\ UNCHANGED <<info, exit, ended, prev>>
  /\ UNCHANGED <<health, pre, runs, overlap>>

\* variant: the handler starts the sequence over instead of exiting
ExceptRetry(p) ==
  /\ pc[p] = "except"
  /\ pc' = [pc EXCEPT ![p] = "exists"]
  /\ UNCHANGED <<remote, calls, health, info, exit, pre, runs, overlap, ended, prev>>

\* variant: the handler prints the error and exits with status 0
ExceptExitZero(p) ==
  /\ pc[p] = "except"
  /\ Terminate(p, 0, remote)
  /\ UNCHANGED <<remote, calls, health, info, pre, runs, overlap>>

\* variant: the handler puts back the index found at the start of the run
ExceptRestore(p) ==
  /\ pc[p] = "except"
  /\ remote' = Without(remote, index_name) \cup Named(pre[p], index_name)
  /\ Terminate(p, 1, remote')
  /\ UNCHANGED <<calls, health, info, pre, runs, overlap>>

\* variant: the handler removes the index before exiting (a rollback)
ExceptDropIndex(p) ==
  /\ pc[p] = "except"
  /\ remote' = Without(remote, index_name)
  /\ Terminate(p, 1, remote')
  /\ UNCHANGED <<calls, health, info, pre, runs, overlap>>

\* except Exception as e: print; sys.exit(1)
Except(p) ==
  /\ pc[p] = "except"
  /\ Terminate(p, 1, remote)
  /\ UNCHANGED <<remote, calls, health, info, pre, runs, overlap>>

\* what ends the process from outside the try block's reach
InterruptCodes == {130, 137}

\* KeyboardInterrupt or a kill: not an Exception, so not caught
Interrupt(p) ==
  /\ Running(p)
  /\ \E code \in InterruptCodes :
       Terminate(p, code, remote)
  /\ UNCHANGED <<remote, calls, health, info, pre, runs, overlap>>

(* ---------------- specifications ---------------- *)

InitialRemotes ==
  { t \cup o :
      t \in {{}} \cup { {Index(index_name, b, d)} : b \in PriorBodies, d \in SUBSET Docs },
      o \in { {}, {Index(other_name, legacy_body, {1})} } }

Init ==
  /\ remote \in InitialRemotes
  /\ pc = [p \in Procs |-> "idle"]
  /\ calls = [p \in Procs |-> <<>>]
  /\ health = [p \in Procs |-> "none"]
  /\ info = [p \in Procs |-> {}]
  /\ exit = [p \in Procs |-> <<>>]
  /\ pre = [p \in Procs |-> {}]
  /\ runs = [p \in Procs |-> 0]
  /\ overlap = [p \in Procs |-> FALSE]
  /\ ended = [p \in Procs |-> NoRun]
  /\ prev = [p \in Procs |-> NoRun]

\* one operator, a service that may fail
Next ==
  \E p \in {1} :
    \/ Start(p)
    \/ IndicesExists(p, Faults)
    \/ IndicesDelete(p, Faults)
    \/ IndicesCreate(p, CreateFaults)
    \/ ClusterHealth(p, Faults)
    \/ IndicesGet(p, Faults)
    \/ Except(p)
    \/ Interrupt(p)

Spec == Init /\ [][Next]_vars

\* two operators, a service that never fails on its own
NextConc ==
  \E p \in Procs :
    \/ Start(p)
    \/ IndicesExists(p, {})
    \/ IndicesDelete(p, {})
    \/ IndicesCreate(p, {})
    \/ ClusterHealth(p, {})
    \/ IndicesGet(p, {})
    \/ Except(p)

SpecConc == Init /\ [][NextConc]_vars

(* ---------------- properties ---------------- *)

Ops(cs) == [ i \in 1..Len(cs) |-> cs[i].op ]

IsPrefix(s, t) == Len(s) <= Len(t) /\ \A i \in 1..Len(s) : s[i] = t[i]

Issued(cs, o) == \E i \in 1..Len(cs) : cs[i].op = o

Answered(cs, o, rs) == \E i \in 1..Len(cs) : cs[i].op = o /\ cs[i].resp \in rs

Failed(cs) == \E i \in 1..Len(cs) : cs[i].resp \notin Successes

Interrupted(code) == code \in InterruptCodes

WasInterrupted(p) == \E code \in InterruptCodes : exit[p] = <<code>>

\* the one index a successful run leaves under the name
Fresh == Index(index_name, index_body, {})

\* C1: two runs in succession that the service answers without fault (and
\* that nobody interrupts) both exit 0, each leaves exactly one index
\* rag-documents-prod with the schema index_body and no documents, and the
\* remote state after the second run equals the one after the first.
C1_Idempotent ==
  \A p \in Procs :
    /\ (ended[p].exit # -1 /\ ended[p].clean /\ ~Interrupted(ended[p].exit))
         => /\ ended[p].exit = 0
            /\ Named(ended[p].remote, index_name) = {Fresh}
    /\ (prev[p].exit # -1 /\ prev[p].clean /\ ~Interrupted(prev[p].exit)
          /\ ended[p].clean /\ ~Interrupted(ended[p].exit))
         => /\ prev[p].exit = 0
            /\ ended[p].exit = 0
            /\ ended[p].remote = prev[p].remote
            /\ Cardinality(Named(ended[p].remote, index_name)) = 1

\* C1 witness: a second clean run has ended after deleting the index the
\* first clean run created.
C1_Witness ==
  /\ runs[1] >= 2 /\ pc[1] = "done"
  /\ prev[1].exit = 0 /\ ended[1].exit = 0
  /\ Answered(calls[1], "delete", {"ack"})
  /\ remote = prev[1].remote

\* C2: when the index is absent at the start of the run, exists answers
\* false (unless the call itself fails), no delete is issued, create is the
\* second call, and a run without fault or interrupt exits 0.
C2_AbsentIsNoError ==
  \A p \in Procs :
    (pc[p] # "idle" /\ ~Present(pre[p], index_name)) =>
      /\ ~Issued(calls[p], "delete")
      /\ (Len(calls[p]) >= 1 /\ calls[p][1].resp \notin Faults
            => calls[p][1] = [op |-> "exists", resp |-> "false", applied |-> FALSE])
      /\ (Len(calls[p]) >= 2 => calls[p][2].op = "create")
      /\ (pc[p] = "done" /\ NoFault(calls[p]) /\ ~WasInterrupted(p)
            => exit[p] = <<0>>)

\* C2 witness: a run that found no index has created one and exited 0.
C2_Witness ==
  /\ pc[1] = "done" /\ exit[1] = <<0>>
  /\ ~Present(pre[1], index_name)
  /\ Ops(calls[1]) = <<"exists", "create", "health", "get">>

\* C3: the calls of a run are a prefix of exists, delete, create, health,
\* get or of exists, create, health, get; delete follows only exists = true,
\* create follows only exists = false or an acknowledged delete, health
\* follows only an acknowledged create, get only an observed health status.
C3_LinearOrder ==
  \A p \in Procs :
    /\ \/ IsPrefix(Ops(calls[p]), <<"exists", "delete", "create", "health", "get">>)
       \/ IsPrefix(Ops(calls[p]), <<"exists", "create", "health", "get">>)
    /\ \A i \in 2..Len(calls[p]) :
         LET c == calls[p][i]
             b == calls[p][i - 1]
         IN /\ c.op = "delete" => (b.op = "exists" /\ b.resp = "true")
            /\ c.op = "create" => \/ (b.op = "exists" /\ b.resp = "false")
                                  \/ (b.op = "delete" /\ b.resp = "ack")
            /\ c.op = "health" => (b.op = "create" /\ b.resp = "ack")
            /\ c.op = "get" => (b.op = "health" /\ b.resp \in HealthStatuses)

\* C3 witness: a run has issued all five calls, the delete among them.
C3_Witness ==
  Ops(calls[1]) = <<"exists", "delete", "create", "health", "get">>

\* C4: a failed call is the last call of its run and leads to the handler,
\* no operation is issued twice in a run, and a run with a failed call ends
\* with a non-zero status.
C4_AbortNoRetry ==
  \A p \in Procs :
    /\ \A i \in 1..Len(calls[p]) :
         calls[p][i].resp \notin Successes
           => (i = Len(calls[p]) /\ pc[p] \in {"except", "done"})
    /\ \A i, j \in 1..Len(calls[p]) : calls[p][i].op = calls[p][j].op => i = j
    /\ (pc[p] = "done" /\ Failed(calls[p])) => (exit[p] # <<>> /\ exit[p] # <<0>>)
    /\ (pc[p] = "except") => Failed(calls[p])

\* C4 witness: a run whose create was rejected has ended with status 1
\* after three calls.
C4_Witness ==
  /\ pc[1] = "done" /\ exit[1] = <<1>>
  /\ Ops(calls[1]) = <<"exists", "delete", "create">>
  /\ calls[1][3].resp = "RemoteRejected"

\* the four steps the specification names completed successfully
FourStepsOk(cs) ==
  /\ Answered(cs, "exists", {"true", "false"})
  /\ Answered(cs, "exists", {"true"}) => Answered(cs, "delete", {"ack"})
  /\ Answered(cs, "create", {"ack"})
  /\ Answered(cs, "health", HealthStatuses)

\* C5 as stated: a run that ended on its own (not by an interrupt) has
\* status 0 exactly when exists, delete-if-present, create and health all
\* completed successfully.
C5_ExitZeroIffFourSteps ==
  \A p \in Procs :
    (pc[p] = "done" /\ ~WasInterrupted(p))
      => (exit[p] = <<0>> <=> FourStepsOk(calls[p]))

\* C5 amended: a finished run has status 0 exactly when exists,
\* delete-if-present, create, health and the closing indices.get all
\* completed successfully; a run in which a call failed has a non-zero status.
C5_ExitZeroIffFiveSteps ==
  \A p \in Procs :
    pc[p] = "done" =>
      /\ exit[p] = <<0>> <=> (FourStepsOk(calls[p]) /\ Answered(calls[p], "get", {"ok"}))
      /\ Failed(calls[p]) => exit[p] # <<0>>

\* C5 witness: the four steps succeeded, the closing get failed, status 1.
C5_Witness ==
  /\ pc[1] = "done" /\ exit[1] = <<1>>
  /\ FourStepsOk(calls[1])
  /\ Answered(calls[1], "get", Faults)

C7_ExitZeroOnlyIfHealthy ==
  \A p \in Procs :
    (pc[p] = "done" /\ exit[p] = <<0>>) => health[p] \in {"green", "yellow"}

\* C8 as stated: a delete answered NotFound does not abort the run, which
\* goes on to create.
C8_NotFoundIsBenign ==
  \A p \in Procs :
    Answered(calls[p], "delete", {"NotFound"}) =>
      /\ pc[p] # "except"
      /\ exit[p] # <<1>>

\* C9: in a run that no run of the other process overlaps no call fails and
\* the run exits 0 leaving the fresh index; a failed call of a service that
\* never fails on its own therefore needs two runs interleaved.
C9_SingleRunSafe ==
  \A p \in Procs :
    /\ ~overlap[p] =>
         /\ ~Failed(calls[p])
         /\ pc[p] # "except"
         /\ pc[p] = "done" => exit[p] = <<0>>
    /\ (ended[p].exit # -1 /\ ~ended[p].overlap) =>
         /\ ended[p].exit = 0
         /\ Named(ended[p].remote, index_name) = {Fresh}

\* C9 witness: two interleaved runs found the index present; one deleted
\* it and the other's delete was answered NotFound, or one created it and
\* the other's create was answered AlreadyExists, and that run exited 1.
C9_Witness ==
  \E p \in Procs :
    /\ overlap[p]
    /\ pc[p] = "done" /\ exit[p] = <<1>>
    /\ \/ Answered(calls[p], "create", {"AlreadyExists"})
       \/ Answered(calls[p], "delete", {"NotFound"})
    /\ \A q \in Procs \ {p} : Answered(calls[q], "create", {"ack"})

Applied(cs, o) == \E i \in 1..Len(cs) : cs[i].op = o /\ cs[i].applied

FailedAt(cs, o) == \E i \in 1..Len(cs) : cs[i].op = o /\ cs[i].resp \notin Successes

\* C11: when create was acknowledged and cluster.health or indices.get then
\* fails, the run exits non-zero and the index created with the schema
\* index_body is still there (no rollback); when the run fails at the exists
\* call, the remote state is the one found at the start of the run.
C11_NoRollback ==
  \A p \in Procs :
    /\ (Answered(calls[p], "create", {"ack"})
          /\ (FailedAt(calls[p], "health") \/ FailedAt(calls[p], "get")))
         => /\ Named(remote, index_name) = {Fresh}
            /\ pc[p] \in {"except", "done"}
            /\ pc[p] = "done" => exit[p] \notin {<<>>, <<0>>}
    /\ FailedAt(calls[p], "exists") => remote = pre[p]

\* C11 witness: the run replaced an index, its closing indices.get failed,
\* it exited 1 and the new index is present: the remote state differs from
\* the one before the run although the status is non-zero.
C11_Witness ==
  /\ pc[1] = "done" /\ exit[1] = <<1>>
  /\ Answered(calls[1], "create", {"ack"})
  /\ FailedAt(calls[1], "get")
  /\ Named(remote, index_name) = {Fresh}
  /\ remote # pre[1]

\* C11, the steps other than exists: "a run that failed at this step left
\* the remote state as it found it".  None of the four is an invariant of
\* Spec: a delete whose answer is lost may have removed the index, a failed
\* create follows an acknowledged delete, and health and get follow the
\* create.
C11_DeleteFailureKeepsRemote ==
  \A p \in Procs : FailedAt(calls[p], "delete") => remote = pre[p]

C11_CreateFailureKeepsRemote ==
  \A p \in Procs : FailedAt(calls[p], "create") => remote = pre[p]

C11_HealthFailureKeepsRemote ==
  \A p \in Procs : FailedAt(calls[p], "health") => remote = pre[p]

C11_GetFailureKeepsRemote ==
  \A p \in Procs : FailedAt(calls[p], "get") => remote = pre[p]

====
